---- MODULE Spec2Model ----
(***************************************************************************)
(* Verification model of dependent_bterms: asymptotic expansions in one    *)
(* growth variable n with a dependent symbol k bounded by powers of n.     *)
(*                                                                         *)
(* Growths of the growth group n^QQ are written as integers counting HALF  *)
(* powers of n: growth 3 is n^(3/2), growth -2 is n^(-1).  The bounds of   *)
(* the dependent variable are n^(lower/2) and n^(upper/2).                 *)
(*                                                                         *)
(* A symbolic coefficient is a sum of atoms  m * k^e / (1 + k^d)  with a   *)
(* positive integer multiplier m (d = 0 stands for the denominator 1).  It *)
(* is kept as a bag of atoms [e, d]: the multiplicity is the multiplier.   *)
(* All multipliers are positive and k > 0, so no leading terms cancel when *)
(* a power of n is substituted for k.                                      *)
(***************************************************************************)
EXTENDS Integers, Sequences, FiniteSets, Bags, TLC

VARIABLES
    variable_bounds,  \* <<lower, upper>> of the ring's term monoids
    summands,         \* the expansion's poset, as the set of its terms
    n_added,          \* number of summands inserted so far
    add_raised,       \* whether the last insertion ended in an exception
    o_pc,             \* O-term scenario: "idle", "constructed", "calling", "done",
                      \* "raised"
    o_given,          \* the <<growth, coefficient>> the O-term was constructed from
    o_self,           \* the constructed O-term
    o_other,          \* the argument of the running self.can_absorb(other)
    o_stack,          \* call stack of can_absorb, innermost frame last
    o_ret,            \* value returned by the call that ended last
    vf_asy,           \* set_bterm_valid_from: the expansion, a sequence of terms
    vf_before,        \* the expansion as it was before the last call
    vf_arg,           \* the valid_from argument of the last call
    vf_first,         \* <<expansion, argument>> of the call before the last one
                      \* when both calls passed an integer, else <<>>
    vf_calls,         \* number of calls made
    ub_pc,            \* expansion_upper_bound: "idle", "loop", "returned",
                      \* "raised" (ValueError), "key_error"
    ub_asy,           \* the expansion passed, a sequence of terms
    ub_args,          \* the numeric and valid_from arguments
    ub_i,             \* position of the loop in the summands
    ub_bound,         \* the local bound, a set of exact terms
    ub_valid_from,    \* the local dict of accumulated floors
    ub_result,        \* the value returned
    fac_pc,           \* monoid factory: "idle", "verifying", "raised", "returned",
                      \* "instantiated", "read"
    fac_call,         \* the factory called and its three arguments
    fac_error,        \* the exception raised by the factory call
    fac_class,        \* the monoid class the factory returned
    fac_instance,     \* a monoid instantiated from the class
    fac_read          \* the value of the instance's variable_bounds

ring_vars == <<summands, n_added, add_raised>>

o_vars == <<o_pc, o_given, o_self, o_other, o_stack, o_ret>>

vf_vars == <<vf_asy, vf_before, vf_arg, vf_first, vf_calls>>

ub_vars == <<ub_pc, ub_asy, ub_args, ub_i, ub_bound, ub_valid_from, ub_result>>

fac_vars == <<fac_pc, fac_call, fac_error, fac_class, fac_instance, fac_read>>

(***************************************************************************)
(* Bounds of the model.                                                    *)
(***************************************************************************)
MaxBnd == 1
MaxSummandPow == 1
MaxPow == 2
MaxKPow == 2
MaxMag == 2
MaxValidFrom == 1
MaxAdds == 3
MaxFloor == 2
MaxCalls == 2
MaxExp == 1
MaxPoint == 3
ZZ_one == 1

Max(a, b) == IF a >= b THEN a ELSE b

SetMax(S) == CHOOSE x \in S : \A y \in S : y <= x

(***************************************************************************)
(* Coefficients.                                                           *)
(***************************************************************************)
Atom(e, d) == [e |-> e, d |-> d]

\* the numeric coefficient m
Numeric(m) == [a \in {Atom(0, 0)} |-> m]

\* the coefficient k^e / (1 + k^d)
Symbolic(e, d) == SetToBag({Atom(e, d)})

\* bound_var in coef.variables()
mentions(coef) == \E a \in BagToSet(coef) : a.e # 0 \/ a.d # 0

\* growth of one atom with n^(p/2) substituted for k
AtomGrowth(a, p) == a.e * p - (IF a.d = 0 THEN 0 ELSE Max(0, a.d * p))

\* growth of the single summand of evaluate(coef, k = n^(p/2)).O()
evaluate_O(coef, p) == SetMax({AtomGrowth(a, p) : a \in BagToSet(coef)})

(***************************************************************************)
(* Terms.  Exact and B-terms carry a coefficient, B-terms a validity       *)
(* floor for n, O-terms only a growth.                                     *)
(***************************************************************************)
ExactTerm(g, c) == [kind |-> "exact", growth |-> g, coefficient |-> c]

OTerm(g) == [kind |-> "O", growth |-> g]

BTerm(g, c, vf) == [kind |-> "B", growth |-> g, coefficient |-> c, valid_from |-> vf]

\* isinstance(element, TermWithCoefficient)
TermWithCoefficient(t) == t.kind \in {"exact", "B"}

\* _element_key(element): (growth_bound, element.growth)
element_key(element, bounds) ==
    IF TermWithCoefficient(element) /\ mentions(element.coefficient)
    THEN <<Max(evaluate_O(element.coefficient, bounds[1]),
               evaluate_O(element.coefficient, bounds[2])) + element.growth,
           element.growth>>
    ELSE <<element.growth, element.growth>>

\* order of the poset's keys: Python's order of tuples
KeyLess(k1, k2) == k1[1] < k2[1] \/ (k1[1] = k2[1] /\ k1[2] < k2[2])

(***************************************************************************)
(* Absorption.                                                             *)
(***************************************************************************)
\* the boundary term  evaluate(other.coefficient, k = value).O() * other
boundary_term(other, value) ==
    OTerm(evaluate_O(other.coefficient, value) + other.growth)

\* boundary_terms, for value in (lower, upper)
boundary_terms(other, bounds) ==
    <<boundary_term(other, bounds[1]), boundary_term(other, bounds[2])>>

\* self.growth >= other.growth
growth_ge(self, other) == self.growth >= other.growth

\* the outcome of a call that returns a truth value
Returned(b) == IF b THEN "True" ELSE "False"

\* the outcome of a call that ends in an exception instead of a value
TypeError == "TypeError"

\* a B-term keeps the coefficient under abs(...): abs(k) for the symbol k
stored_under_abs(other) == other.kind = "B" /\ mentions(other.coefficient)

\* MonBoundOTerm.can_absorb(other); the recursive calls get O-terms, which
\* carry no coefficient.  Line 160 evaluates the coefficient as it is
\* stored, without the simplify() of _element_key: for a B-term that is
\* abs(...) of an expansion, which has no absolute value, and the call
\* ends there in a TypeError
MonBoundOTerm_can_absorb(self, other, bounds) ==
    IF TermWithCoefficient(other) /\ mentions(other.coefficient)
    THEN IF stored_under_abs(other)
         THEN TypeError
         ELSE Returned(\A i \in DOMAIN boundary_terms(other, bounds) :
                          growth_ge(self, boundary_terms(other, bounds)[i]))
    ELSE Returned(growth_ge(self, other))

\* MonBoundBTerm.can_absorb(other)
MonBoundBTerm_can_absorb(self, other) == self.growth = other.growth

\* ExactTerm.can_absorb(other) of the host framework
ExactTerm_can_absorb(self, other) ==
    other.kind = "exact" /\ self.growth = other.growth

\* left.can_absorb(right), dispatched on the kind of left: its outcome
term_can_absorb(left, right, bounds) ==
    CASE left.kind = "O" -> MonBoundOTerm_can_absorb(left, right, bounds)
      [] left.kind = "B" -> Returned(MonBoundBTerm_can_absorb(left, right))
      [] OTHER -> Returned(ExactTerm_can_absorb(left, right))

\* can_merge of the poset: term_monoid.can_absorb(left, right), that is
\* left.can_absorb(right) or right.can_absorb(left); the second call is
\* made only when the first returned false
can_merge(left, right, bounds) ==
    IF term_can_absorb(left, right, bounds) = Returned(FALSE)
    THEN term_can_absorb(right, left, bounds)
    ELSE term_can_absorb(left, right, bounds)

\* a growth above every growth a term of the ring model has
Unordered == MaxSummandPow + MaxKPow * MaxBnd + 1

\* stands for the exception a failed can_absorb or _absorb_ leaves: no term
\* absorbs it
Raised == [kind |-> "raised", growth |-> Unordered]

\* left._absorb_(right) once left.can_absorb(right) holds.  The inherited
\* BTerm._absorb_ adds the coefficient of a term that carries one; the
\* term it is handed by MonBoundBTerm.can_absorb may be an O-term, which
\* carries none, and the call ends in an exception
term_absorb(left, right) ==
    CASE left.kind = "O" -> left
      [] left.kind = "B" ->
            IF TermWithCoefficient(right)
            THEN BTerm(left.growth, left.coefficient (+) right.coefficient,
                       IF right.kind = "B" THEN Max(left.valid_from, right.valid_from)
                       ELSE left.valid_from)
            ELSE Raised
      [] left.kind = "exact" ->
            ExactTerm(left.growth, left.coefficient (+) right.coefficient)
      [] OTHER -> left

\* merge of the poset: term_monoid.absorption(left, right)
absorption(left, right, bounds) ==
    CASE term_can_absorb(left, right, bounds) = Returned(TRUE) ->
            term_absorb(left, right)
      [] term_can_absorb(left, right, bounds) = TypeError -> Raised
      [] OTHER ->
            IF term_can_absorb(right, left, bounds) = Returned(TRUE)
            THEN term_absorb(right, left)
            ELSE Raised

(***************************************************************************)
(* The poset of summands (MutablePoset with key _element_key).  The keys   *)
(* of a one-variable growth group are totally ordered, so the poset is a   *)
(* chain, kept here as a sequence of elements in ascending key order.      *)
(***************************************************************************)
RECURSIVE Chain(_, _)
Chain(S, bounds) ==
    IF S = {} THEN <<>>
    ELSE LET lo == CHOOSE t \in S : \A u \in S \ {t} :
                       KeyLess(element_key(t, bounds), element_key(u, bounds))
         IN <<lo>> \o Chain(S \ {lo}, bounds)

\* MutablePoset.add(element): an element with a new key gets its own shell,
\* one with a key already present is merged into that shell when can_merge
\* allows it
poset_add(S, element, bounds) ==
    IF \E s \in S : element_key(s, bounds) = element_key(element, bounds)
    THEN LET s == CHOOSE s \in S : element_key(s, bounds) = element_key(element, bounds)
         IN CASE can_merge(s, element, bounds) = Returned(TRUE) ->
                    (S \ {s}) \cup {absorption(s, element, bounds)}
              [] can_merge(s, element, bounds) = TypeError ->
                    (S \ {s}) \cup {Raised}
              [] OTHER -> S
    ELSE S \cup {element}

\* number of shells directly below position i that the depth first search
\* from shell i reaches: it stops at the first shell that cannot be merged
RECURSIVE MergeRun(_, _, _, _)
MergeRun(chain, i, j, bounds) ==
    IF j >= 1 /\ can_merge(chain[i], chain[j], bounds) = Returned(TRUE)
    THEN 1 + MergeRun(chain, i, j - 1, bounds)
    ELSE 0

\* element of shell i after absorbing, nearest first, the r shells below it
RECURSIVE Absorbed(_, _, _, _, _)
Absorbed(acc, chain, j, r, bounds) ==
    IF r = 0 THEN acc
    ELSE Absorbed(absorption(acc, chain[j], bounds), chain, j - 1, r - 1, bounds)

\* MutablePoset.merge(key) for the shell at position i: the merged shells
\* are removed and the shell keeps its place.  A can_merge that ends in an
\* exception ends the merge with it
merge_shell(chain, i, bounds) ==
    LET r == MergeRun(chain, i, i - 1, bounds)
        stop == i - 1 - r
        merged == IF stop >= 1 /\ can_merge(chain[i], chain[stop], bounds) = TypeError
                  THEN Raised
                  ELSE Absorbed(chain[i], chain, i - 1, r, bounds)
    IN SubSeq(chain, 1, i - 1 - r) \o <<merged>> \o SubSeq(chain, i + 1, Len(chain))

\* MutablePoset.merge(reverse=True): every shell still present, largest first
RECURSIVE merge_all(_, _, _)
merge_all(chain, i, bounds) ==
    IF i < 1 THEN chain
    ELSE LET r == MergeRun(chain, i, i - 1, bounds)
         IN merge_all(merge_shell(chain, i, bounds), i - 1 - r, bounds)

\* MutablePoset(list(element.summands), key=_element_key, ...)
RECURSIVE rebuild(_, _, _)
rebuild(S, chain, bounds) ==
    IF chain = <<>> THEN S
    ELSE rebuild(poset_add(S, Head(chain), bounds), Tail(chain), bounds)

\* expansion + A(term): union of the posets, _simplify_ and the rebuilt poset
\* of AsymptoticRingWithCustomPosetKey._element_constructor_
add_summand(S, term, bounds) ==
    LET united == Chain(poset_add(S, term, bounds), bounds)
    IN rebuild({}, merge_all(united, Len(united), bounds), bounds)

\* bounds: the O-bound of the coefficient at the lower and at the upper bound
coefficient_O_bounds(coefficient, bounds) ==
    <<OTerm(evaluate_O(coefficient, bounds[1])),
      OTerm(evaluate_O(coefficient, bounds[2]))>>

\* [coefficient_bound] = list(sum(bounds).summands)
coefficient_bound(coefficient, bounds) ==
    LET both == coefficient_O_bounds(coefficient, bounds)
        total == add_summand(add_summand({}, both[1], bounds), both[2], bounds)
    IN CHOOSE t \in total : TRUE

\* a constructor that folds in the coefficient's growth at the upper bound only
MonBoundOTerm_init_upper_only(growth, coefficient, bounds) ==
    IF mentions(coefficient)
    THEN OTerm(growth + evaluate_O(coefficient, bounds[2]))
    ELSE OTerm(growth)

\* MonBoundOTerm.__init__(parent, growth, coefficient)
MonBoundOTerm_init(growth, coefficient, bounds) ==
    IF mentions(coefficient)
    THEN OTerm(growth + coefficient_bound(coefficient, bounds).growth)
    ELSE OTerm(growth)

(***************************************************************************)
(* Inputs of the ring model.                                               *)
(***************************************************************************)
BoundPairs == {b \in (-MaxBnd .. MaxBnd) \X (-MaxBnd .. MaxBnd) : b[1] <= b[2]}

SummandPows == -MaxSummandPow .. MaxSummandPow

NumericCoefs == {Numeric(m) : m \in 1 .. MaxMag}

SymbolicCoefs ==
    {Symbolic(e, 0) : e \in (-MaxKPow .. MaxKPow) \ {0}}
        \cup {Symbolic(1, 2), Symbolic(0, 2)}

Coefs == NumericCoefs \cup SymbolicCoefs

\* coefficients of the B-terms inserted: numbers, k and 1/k
BCoefs == NumericCoefs \cup {Symbolic(1, 0), Symbolic(-1, 0)}

None == "none"

RingIdle == summands = {} /\ n_added = 0 /\ add_raised = FALSE

OIdle ==
    /\ o_pc = "idle"
    /\ o_given = None
    /\ o_self = None
    /\ o_other = None
    /\ o_stack = <<>>
    /\ o_ret = None

VFIdle ==
    /\ vf_asy = <<>>
    /\ vf_before = <<>>
    /\ vf_arg = None
    /\ vf_first = <<>>
    /\ vf_calls = 0

UBIdle ==
    /\ ub_pc = "idle"
    /\ ub_asy = <<>>
    /\ ub_args = None
    /\ ub_i = 0
    /\ ub_bound = {}
    /\ ub_valid_from = <<>>
    /\ ub_result = [kind |-> "none"]

NoCall == [factory |-> "none"]

NoClass == [monoid |-> "none"]

NoInstance == [monoid |-> "none"]

FacIdle ==
    /\ fac_pc = "idle"
    /\ fac_call = NoCall
    /\ fac_error = None
    /\ fac_class = NoClass
    /\ fac_instance = NoInstance
    /\ fac_read = <<>>

NoBounds == <<0, 0>>

(***************************************************************************)
(* Summand insertion into an expansion of the ring.                        *)
(***************************************************************************)
RingInit ==
    /\ variable_bounds \in BoundPairs
    /\ RingIdle
    /\ OIdle
    /\ VFIdle
    /\ UBIdle
    /\ FacIdle

\* the sum was built, or an exception left the expansion as it was
Added(result) ==
    IF \E t \in result : t.kind = "raised"
    THEN summands' = summands /\ add_raised' = TRUE
    ELSE summands' = result /\ add_raised' = FALSE

\* expansion + coefficient * n^(g/2)
AddExact ==
    /\ n_added < MaxAdds
    /\ \E g \in SummandPows, c \in Coefs :
          Added(add_summand(summands, ExactTerm(g, c), variable_bounds))
    /\ n_added' = n_added + 1
    /\ UNCHANGED <<variable_bounds, o_vars, vf_vars, ub_vars, fac_vars>>

\* expansion + O(coefficient * n^(g/2))
AddO ==
    /\ n_added < MaxAdds
    /\ \E g \in SummandPows, c \in Coefs :
          Added(add_summand(summands,
                            MonBoundOTerm_init(g, c, variable_bounds),
                            variable_bounds))
    /\ n_added' = n_added + 1
    /\ UNCHANGED <<variable_bounds, o_vars, vf_vars, ub_vars, fac_vars>>

\* expansion + B(coefficient * n^(g/2), valid_from=vf)
AddB ==
    /\ n_added < MaxAdds
    /\ \E g \in SummandPows, c \in BCoefs, vf \in 0 .. MaxValidFrom :
          Added(add_summand(summands, BTerm(g, c, vf), variable_bounds))
    /\ n_added' = n_added + 1
    /\ UNCHANGED <<variable_bounds, o_vars, vf_vars, ub_vars, fac_vars>>

RingNext == AddExact \/ AddO \/ AddB

vars == <<variable_bounds, ring_vars, o_vars, vf_vars, ub_vars, fac_vars>>

Init == RingInit

Next == RingNext

Spec == Init /\ [][Next]_vars

\* C1: for every stored term whose coefficient mentions the dependent
\* variable and every admissible k = n^(p/2) between the bounds, the growth
\* of the term at that k is at most the first component of its key
C1_KeySound ==
    \A t \in summands :
        (TermWithCoefficient(t) /\ mentions(t.coefficient)) =>
            \A p \in variable_bounds[1] .. variable_bounds[2] :
                evaluate_O(t.coefficient, p) + t.growth
                    <= element_key(t, variable_bounds)[1]

\* C2: after any sequence of insertions no two stored terms are mergeable
C2_NoMergeablePair ==
    \A a \in summands : \A b \in summands \ {a} :
        term_can_absorb(a, b, variable_bounds) # Returned(TRUE)

(***************************************************************************)
(* O-terms: construction and can_absorb, one call or return per step.      *)
(***************************************************************************)
Pows == -MaxPow .. MaxPow

\* the terms can_absorb is asked about
Others ==
    {ExactTerm(g, c) : g \in Pows, c \in Coefs}
        \cup {OTerm(g) : g \in Pows}
        \cup {BTerm(g, c, 1) : g \in Pows, c \in Coefs}

Frame(other, at, todo) == [other |-> other, at |-> at, todo |-> todo]

Top == o_stack[Len(o_stack)]

Pop == SubSeq(o_stack, 1, Len(o_stack) - 1)

OInit ==
    /\ variable_bounds \in BoundPairs
    /\ RingIdle
    /\ OIdle
    /\ VFIdle
    /\ UBIdle
    /\ FacIdle

\* O(coefficient * n^(g/2)): MonBoundOTerm.__init__
NewOTerm ==
    /\ o_pc \in {"idle", "done", "raised"}
    /\ \E g \in Pows, c \in Coefs :
          /\ o_given' = <<g, c>>
          /\ o_self' = MonBoundOTerm_init(g, c, variable_bounds)
    /\ o_pc' = "constructed"
    /\ o_other' = None
    /\ o_ret' = None
    /\ UNCHANGED <<variable_bounds, ring_vars, vf_vars, ub_vars, fac_vars, o_stack>>

\* self.can_absorb(other) is called
CallCanAbsorb ==
    /\ o_pc = "constructed"
    /\ \E other \in Others :
          /\ o_other' = other
          /\ o_stack' = <<Frame(other, "enter", <<>>)>>
    /\ o_pc' = "calling"
    /\ o_given' = None
    /\ UNCHANGED <<variable_bounds, ring_vars, vf_vars, ub_vars, fac_vars, o_self, o_ret>>

\* lines 153-163: other carries a coefficient with the dependent variable,
\* the boundary terms are built
EnterBoundary ==
    /\ o_pc = "calling"
    /\ o_stack # <<>>
    /\ Top.at = "enter"
    /\ TermWithCoefficient(Top.other) /\ mentions(Top.other.coefficient)
    /\ ~stored_under_abs(Top.other)
    /\ o_stack' = Pop \o <<Frame(Top.other, "all",
                                 boundary_terms(Top.other, variable_bounds))>>
    /\ UNCHANGED <<variable_bounds, ring_vars, vf_vars, ub_vars, fac_vars, o_pc, o_given, o_self, o_other, o_ret>>

\* line 160 on a B-term whose coefficient mentions the dependent variable:
\* abs(...) is applied to an expansion and the call ends in a TypeError
BoundaryRaises ==
    /\ o_pc = "calling"
    /\ o_stack # <<>>
    /\ Top.at = "enter"
    /\ stored_under_abs(Top.other)
    /\ o_pc' = "raised"
    /\ o_stack' = <<>>
    /\ UNCHANGED <<variable_bounds, ring_vars, vf_vars, ub_vars, fac_vars, o_given, o_self, o_other, o_ret>>

\* line 164: return self.growth >= other.growth
ReturnGrowth ==
    /\ o_pc = "calling"
    /\ o_stack # <<>>
    /\ Top.at = "enter"
    /\ ~(TermWithCoefficient(Top.other) /\ mentions(Top.other.coefficient))
    /\ o_ret' = Returned(growth_ge(o_self, Top.other))
    /\ o_stack' = Pop
    /\ UNCHANGED <<variable_bounds, ring_vars, vf_vars, ub_vars, fac_vars, o_pc, o_given, o_self, o_other>>

\* line 163: all(...) asks about the next boundary term
AllNext ==
    /\ o_pc = "calling"
    /\ o_stack # <<>>
    /\ Top.at = "all"
    /\ o_ret = None
    /\ Top.todo # <<>>
    /\ o_stack' = Pop \o <<Frame(Top.other, "wait", Tail(Top.todo)),
                            Frame(Head(Top.todo), "enter", <<>>)>>
    /\ UNCHANGED <<variable_bounds, ring_vars, vf_vars, ub_vars, fac_vars, o_pc, o_given, o_self, o_other, o_ret>>

\* line 163: the recursive call returned to all(...)
AllResume ==
    /\ o_pc = "calling"
    /\ o_stack # <<>>
    /\ Top.at = "wait"
    /\ o_ret # None
    /\ IF o_ret = Returned(TRUE)
       THEN /\ o_stack' = Pop \o <<Frame(Top.other, "all", Top.todo)>>
            /\ o_ret' = None
       ELSE /\ o_stack' = Pop
            /\ o_ret' = Returned(FALSE)
    /\ UNCHANGED <<variable_bounds, ring_vars, vf_vars, ub_vars, fac_vars, o_pc, o_given, o_self, o_other>>

\* line 163: all(...) ran out of boundary terms
AllDone ==
    /\ o_pc = "calling"
    /\ o_stack # <<>>
    /\ Top.at = "all"
    /\ o_ret = None
    /\ Top.todo = <<>>
    /\ o_ret' = Returned(TRUE)
    /\ o_stack' = Pop
    /\ UNCHANGED <<variable_bounds, ring_vars, vf_vars, ub_vars, fac_vars, o_pc, o_given, o_self, o_other>>

\* the outermost call returned
Finish ==
    /\ o_pc = "calling"
    /\ o_stack = <<>>
    /\ o_ret # None
    /\ o_pc' = "done"
    /\ UNCHANGED <<variable_bounds, ring_vars, vf_vars, ub_vars, fac_vars, o_given, o_self, o_other, o_stack, o_ret>>

ONext ==
    \/ NewOTerm
    \/ CallCanAbsorb
    \/ EnterBoundary
    \/ BoundaryRaises
    \/ ReturnGrowth
    \/ AllNext
    \/ AllResume
    \/ AllDone
    \/ Finish

SpecO == OInit /\ [][ONext]_vars

\* C9: a constructed O-term stores the given growth times the larger of the
\* coefficient's growths at the two bounds when the coefficient mentions the
\* dependent variable (O(n*k) is O(n^(3/2)) and O(n/k^2) is O(n^2) for the
\* bounds n^(-1/2), n^(1/2)), and the given growth unchanged otherwise
C9_StoredGrowth ==
    o_pc = "constructed" =>
        LET g == o_given[1]
            c == o_given[2]
            at_lower == evaluate_O(c, variable_bounds[1])
            at_upper == evaluate_O(c, variable_bounds[2])
        IN /\ mentions(c) =>
                o_self.growth = g + (IF at_lower >= at_upper THEN at_lower ELSE at_upper)
           /\ ~mentions(c) => o_self.growth = g
           /\ (variable_bounds = <<-1, 1>> /\ o_given = <<2, Symbolic(1, 0)>>)
                => o_self = OTerm(3)
           /\ (variable_bounds = <<-1, 1>> /\ o_given = <<2, Symbolic(-2, 0)>>)
                => o_self = OTerm(4)

\* O(n/k^2) was constructed with the bounds n^(-1/2), n^(1/2): the lower
\* bound gives the larger coefficient growth
C9_Witness ==
    /\ o_pc = "constructed"
    /\ variable_bounds = <<-1, 1>>
    /\ o_given = <<2, Symbolic(-2, 0)>>
    /\ o_self = OTerm(4)

\* what the claim says self.can_absorb(other) returns
C10_Expected(self, other, bounds) ==
    IF TermWithCoefficient(other) /\ mentions(other.coefficient)
    THEN /\ self.growth >= evaluate_O(other.coefficient, bounds[1]) + other.growth
         /\ self.growth >= evaluate_O(other.coefficient, bounds[2]) + other.growth
    ELSE self.growth >= other.growth

C10_Safe ==
    /\ o_pc # "raised"
    /\ o_pc = "done" =>
          o_ret = Returned(C10_Expected(o_self, o_other, variable_bounds))
    /\ Len(o_stack) <= 2
    /\ \A i \in DOMAIN o_stack :
          i > 1 => /\ o_stack[i].other.kind = "O"
                   /\ o_stack[i].at = "enter"

\* C10: can_absorb(other) returns whether the O-term absorbs both boundary
\* terms when other's coefficient mentions the dependent variable and
\* whether self.growth >= other.growth otherwise; every recursive call is
\* about an O-term, so it takes the growth comparison, and the call ends
\* with that result
C10_CanAbsorb ==
    /\ [](C10_Safe)
    /\ (o_pc = "calling") ~> (o_pc = "done")

\* the interpreter runs a call that has begun to its end
SpecOFair == SpecO /\ WF_vars(EnterBoundary \/ BoundaryRaises \/ ReturnGrowth \/ AllNext
                                \/ AllResume \/ AllDone \/ Finish)
(***************************************************************************)
(* set_bterm_valid_from.  The expansion is a sequence of terms of a ring   *)
(* with the variables n and m; a B-term's valid_from maps each of them to  *)
(* its floor.  Only the kind and the floors of a term matter here.         *)
(***************************************************************************)
VariableNames == {"n", "m"}

Floors == 0 .. MaxFloor

UExact == [kind |-> "exact"]

UO == [kind |-> "O"]

UB(valid_from) == [kind |-> "B", valid_from |-> valid_from]

UTerms == {UExact, UO} \cup {UB(vf) : vf \in [VariableNames -> Floors]}

\* the expansions a call is made on: up to two summands
UExpansions == {<<>>} \cup {<<t>> : t \in UTerms} \cup (UTerms \X UTerms)

\* a key of the mapping: a variable's name, or the variable itself
ByName(name) == [symbol |-> FALSE, name |-> name]

BySymbol(name) == [symbol |-> TRUE, name |-> name]

MapKeys == {ByName("n"), ByName("m"), ByName("z"), BySymbol("n")}

\* str(v)
str(v) == v.name

IntArg(f) == [form |-> "int", value |-> f]

MapArg(items) == [form |-> "map", items |-> items]

\* the mappings passed, as <<key, floor>> items in dict order: one item, or
\* two items that name n (by name and by symbol), or that name n and m
MapItems ==
    LET one == MapKeys \X Floors
        same == {ByName("n"), BySymbol("n")}
    IN {<<i>> : i \in one}
         \cup {p \in one \X one :
                  /\ p[1][1] # p[2][1]
                  /\ \/ p[1][1] \in same /\ p[2][1] \in same /\ p[1][2] # p[2][2]
                     \/ p[1][1] = ByName("n") /\ p[2][1] = ByName("m")}

Args == {IntArg(f) : f \in Floors} \cup {MapArg(items) : items \in MapItems}

\* {str(v): bound for (v, bound) in valid_from.items()}
RECURSIVE by_name(_)
by_name(items) ==
    IF items = <<>> THEN <<>>
    ELSE LET n == Len(items)
             front == by_name(SubSeq(items, 1, n - 1))
             name == str(items[n][1])
         IN [v \in (DOMAIN front) \cup {name} |->
                IF v = name THEN items[n][2] ELSE front[v]]

\* valid_from.get(v, default_value)
passed_bound(valid_from, v) ==
    IF valid_from.form = "int" THEN valid_from.value
    ELSE LET names == by_name(valid_from.items)
         IN IF v \in DOMAIN names THEN names[v] ELSE ZZ_one

\* a ratchet that overwrites the floor with the passed bound
raised_floor_overwrite(bound, passed) == passed

\* a ratchet that lowers floors
raised_floor_min(bound, passed) == IF bound > passed THEN passed ELSE bound

\* if bound < passed_bound: term.valid_from[v] = passed_bound
raised_floor(bound, passed) == IF bound < passed THEN passed ELSE bound

\* set_bterm_valid_from(asy, valid_from): the terms after the call
set_bterm_valid_from(asy, valid_from) ==
    [i \in DOMAIN asy |->
        IF asy[i].kind = "B"
        THEN [asy[i] EXCEPT !.valid_from =
                 [v \in DOMAIN @ |-> raised_floor(@[v], passed_bound(valid_from, v))]]
        ELSE asy[i]]

VFInit ==
    /\ variable_bounds = NoBounds
    /\ RingIdle
    /\ OIdle
    /\ vf_asy \in UExpansions
    /\ vf_before = vf_asy
    /\ vf_arg = None
    /\ vf_first = <<>>
    /\ vf_calls = 0
    /\ UBIdle
    /\ FacIdle

SetBTermValidFrom ==
    /\ vf_calls < MaxCalls
    /\ \E valid_from \in Args :
          /\ vf_asy' = set_bterm_valid_from(vf_asy, valid_from)
          /\ vf_arg' = valid_from
          /\ vf_first' = IF vf_calls > 0 /\ vf_arg.form = "int" /\ valid_from.form = "int"
                         THEN <<vf_before, vf_arg>>
                         ELSE <<>>
    /\ vf_before' = vf_asy
    /\ vf_calls' = vf_calls + 1
    /\ UNCHANGED <<variable_bounds, ring_vars, o_vars, ub_vars, fac_vars>>

VFNext == SetBTermValidFrom

SpecVF == VFInit /\ [][VFNext]_vars

BTermsOf(asy) == {i \in DOMAIN asy : asy[i].kind = "B"}

\* the variables the last call addresses in a B-term's validity region
Addressed(valid_from, region) ==
    IF valid_from.form = "int" THEN region
    ELSE {v \in region : \E j \in DOMAIN valid_from.items : str(valid_from.items[j][1]) = v}

\* C3: a call lowers no floor, and every floor it addresses becomes the
\* larger of the floor before the call and the passed floor
C3_Ratchet ==
    vf_calls > 0 =>
        /\ DOMAIN vf_asy = DOMAIN vf_before
        /\ \A i \in BTermsOf(vf_before) :
              /\ vf_asy[i].kind = "B"
              /\ \A v \in VariableNames :
                    vf_asy[i].valid_from[v] >= vf_before[i].valid_from[v]
              /\ \A v \in Addressed(vf_arg, VariableNames) :
                    LET old == vf_before[i].valid_from[v]
                        given == passed_bound(vf_arg, v)
                    IN vf_asy[i].valid_from[v] = (IF old >= given THEN old ELSE given)

\* a call in mapping form raised a floor above its old value
C3_Witness ==
    /\ vf_calls > 0
    /\ vf_arg.form = "map"
    /\ \E i \in BTermsOf(vf_before) :
          /\ vf_before[i].valid_from["n"] = 1
          /\ vf_asy[i].valid_from["n"] = 2
          /\ "n" \in Addressed(vf_arg, VariableNames)

\* C4: for integers f1 <= f2, the call with f1 followed by the call with f2
\* leaves the floors the call with f2 alone gives the original expansion
C4_IdempotentFromAbove ==
    (vf_calls >= 2 /\ vf_first # <<>> /\ vf_first[2].value <= vf_arg.value) =>
        vf_asy = set_bterm_valid_from(vf_first[1], vf_arg)

\* two integer calls f1 < f2, the first of which raised a floor
C4_Witness ==
    /\ vf_calls >= 2
    /\ vf_first # <<>>
    /\ vf_first[2].value < vf_arg.value
    /\ \E i \in BTermsOf(vf_before) : \E v \in VariableNames :
          /\ vf_first[1][i].valid_from[v] < vf_before[i].valid_from[v]
          /\ vf_before[i].valid_from[v] < vf_asy[i].valid_from[v]

\* C5: a call with a mapping naming no variable of a B-term's validity
\* region leaves every floor of that B-term unchanged
C5_UnrelatedKeysChangeNothing ==
    (vf_calls > 0 /\ vf_arg.form = "map") =>
        \A i \in BTermsOf(vf_before) :
            Addressed(vf_arg, DOMAIN vf_before[i].valid_from) = {}
                => vf_asy[i].valid_from = vf_before[i].valid_from
(***************************************************************************)
(* expansion_upper_bound.  The expansion is a sequence of terms of a ring  *)
(* in the variable n, or in the variables n and m, with integer            *)
(* coefficients; here a growth gives the integer power of each variable.   *)
(* A stored expansion holds no two terms of one growth and no O-term that  *)
(* is at least another term.                                               *)
(***************************************************************************)
Exps == -MaxExp .. MaxExp

\* the growth n^e * m^f
Growth(e, f) == [n |-> e, m |-> f]

\* the variables of the ring the expansion lives in
Rings == {{"n"}, {"n", "m"}}

Growths(ring) ==
    {Growth(e, f) : e \in Exps, f \in (IF "m" \in ring THEN {0, 1} ELSE {0})}

growth_le(g, h) == \A v \in VariableNames : g[v] <= h[v]

QExact(g, c) == [kind |-> "exact", growth |-> g, coefficient |-> c]

QO(g) == [kind |-> "O", growth |-> g]

\* B(c * growth, valid_from=floor): the floor holds for every variable of
\* the ring
QB(g, c, floor, ring) ==
    [kind |-> "B", growth |-> g, coefficient |-> c,
     valid_from |-> [v \in ring |-> floor]]

QTerms(ring) ==
    {QExact(g, c) : g \in Growths(ring), c \in (-MaxMag .. MaxMag) \ {0}}
        \cup {QO(g) : g \in Growths(ring)}
        \cup {QB(g, c, f, ring) : g \in Growths(ring), c \in 1 .. MaxMag, f \in Floors}

Stored(asy) ==
    \A i \in DOMAIN asy : \A j \in DOMAIN asy :
        i # j => /\ asy[i].growth # asy[j].growth
                 /\ asy[i].kind = "O" => ~growth_le(asy[j].growth, asy[i].growth)

QExpansions(ring) ==
    {asy \in {<<>>} \cup {<<t>> : t \in QTerms(ring)}
                \cup (QTerms(ring) \X QTerms(ring)) : Stored(asy)}

\* the valid_from arguments: None or an integer
NoValidFrom == [given |-> FALSE, value |-> 0]

ValidFrom(f) == [given |-> TRUE, value |-> f]

SeedArgs == {NoValidFrom} \cup {ValidFrom(f) : f \in Floors}

NoResult == [kind |-> "none"]

Abs(x) == IF x < 0 THEN -x ELSE x

\* asy.variable_names(): the variables that occur in a summand's growth
variable_names(asy) ==
    {v \in VariableNames : \E i \in DOMAIN asy : asy[i].growth[v] # 0}

\* valid_from or A.coefficient_ring.one()
seed(valid_from) ==
    IF ~valid_from.given \/ valid_from.value = 0 THEN ZZ_one ELSE valid_from.value

\* bound += exact term: terms of one growth add their coefficients, and a
\* term whose coefficient becomes zero leaves the expansion
bound_add(bound, term) ==
    IF \E t \in bound : t.growth = term.growth
    THEN LET t == CHOOSE t \in bound : t.growth = term.growth
             c == t.coefficient + term.coefficient
         IN IF c = 0 THEN bound \ {t}
            ELSE (bound \ {t}) \cup {QExact(t.growth, c)}
    ELSE bound \cup {term}

\* the exact term lines 183-187 put in place of a B-term
exact_of_bterm(summand) == QExact(summand.growth, Abs(summand.coefficient))

\* max(valid_from[v], bd)
accumulate(current, bd) == Max(current, bd)

\* the keys of summand.valid_from.items(), in the order of the dict
items(summand) ==
    IF "m" \in DOMAIN summand.valid_from THEN <<"n", "m">> ELSE <<"n">>

\* the items of the B-term's valid_from the loop of lines 188-189 gets
\* through: all of them, or those before the first key the local dict lacks
items_done(valid_from, summand) ==
    LET keys == items(summand)
    IN IF \A j \in DOMAIN keys : keys[j] \in DOMAIN valid_from
       THEN Len(keys)
       ELSE (CHOOSE j \in DOMAIN keys :
                /\ keys[j] \notin DOMAIN valid_from
                /\ \A h \in 1 .. j - 1 : keys[h] \in DOMAIN valid_from) - 1

\* the local dict after the loop of lines 188-189 over the B-term's items
accumulated(valid_from, summand) ==
    [v \in DOMAIN valid_from |->
        IF \E j \in 1 .. items_done(valid_from, summand) : items(summand)[j] = v
        THEN accumulate(valid_from[v], summand.valid_from[v])
        ELSE valid_from[v]]

\* the for loop over asy.summands is exhausted
loop_done(i, asy) == i > Len(asy)

RECURSIVE Pow(_, _)
Pow(b, e) == IF e = 0 THEN 1 ELSE b * Pow(b, e - 1)

RECURSIVE SumOver(_, _, _, _)
\* sum of coefficient * pn^(growth.n + shift) * pm^growth.m over exact terms
SumOver(terms, pn, pm, shift) ==
    IF terms = {} THEN 0
    ELSE LET t == CHOOSE t \in terms : TRUE
         IN t.coefficient * Pow(pn, t.growth.n + shift) * Pow(pm, t.growth.m)
              + SumOver(terms \ {t}, pn, pm, shift)

\* the value put for v: a variable the dict lacks occurs in no growth
point_of(valid_from, v) == IF v \in DOMAIN valid_from THEN valid_from[v] ELSE 1

\* bound.subs(valid_from): the rational num / den
subs(bound, valid_from) ==
    [num |-> SumOver(bound, point_of(valid_from, "n"), point_of(valid_from, "m"), MaxExp),
     den |-> Pow(point_of(valid_from, "n"), MaxExp)]

UBInit ==
    /\ variable_bounds = NoBounds
    /\ RingIdle
    /\ OIdle
    /\ VFIdle
    /\ UBIdle
    /\ FacIdle

\* line 176-178: the call, the empty bound and the seeded floors
UBCall ==
    /\ ub_pc = "idle"
    /\ \E ring \in Rings, numeric \in BOOLEAN, valid_from \in SeedArgs :
       \E asy \in QExpansions(ring) :
          /\ ub_asy' = asy
          /\ ub_args' = [numeric |-> numeric, valid_from |-> valid_from]
          /\ ub_valid_from' = [v \in variable_names(asy) |-> seed(valid_from)]
    /\ ub_pc' = "loop"
    /\ ub_i' = 1
    /\ ub_bound' = {}
    /\ ub_result' = NoResult
    /\ UNCHANGED <<variable_bounds, ring_vars, o_vars, vf_vars, fac_vars>>

\* lines 180-181: an exact summand
UBExact ==
    /\ ub_pc = "loop"
    /\ ~loop_done(ub_i, ub_asy)
    /\ ub_asy[ub_i].kind = "exact"
    /\ ub_bound' = bound_add(ub_bound, ub_asy[ub_i])
    /\ ub_i' = ub_i + 1
    /\ UNCHANGED <<variable_bounds, ring_vars, o_vars, vf_vars, fac_vars,
                   ub_pc, ub_asy, ub_args, ub_valid_from, ub_result>>

\* lines 182-189: a B-term whose variables the local dict all holds
UBBTerm ==
    /\ ub_pc = "loop"
    /\ ~loop_done(ub_i, ub_asy)
    /\ ub_asy[ub_i].kind = "B"
    /\ items_done(ub_valid_from, ub_asy[ub_i]) = Len(items(ub_asy[ub_i]))
    /\ ub_bound' = bound_add(ub_bound, exact_of_bterm(ub_asy[ub_i]))
    /\ ub_valid_from' = accumulated(ub_valid_from, ub_asy[ub_i])
    /\ ub_i' = ub_i + 1
    /\ UNCHANGED <<variable_bounds, ring_vars, o_vars, vf_vars, fac_vars,
                   ub_pc, ub_asy, ub_args, ub_result>>

\* lines 182-189: a B-term with a variable the local dict lacks; line 189
\* reads valid_from[v] and ends in KeyError
UBKeyError ==
    /\ ub_pc = "loop"
    /\ ~loop_done(ub_i, ub_asy)
    /\ ub_asy[ub_i].kind = "B"
    /\ items_done(ub_valid_from, ub_asy[ub_i]) < Len(items(ub_asy[ub_i]))
    /\ ub_bound' = bound_add(ub_bound, exact_of_bterm(ub_asy[ub_i]))
    /\ ub_valid_from' = accumulated(ub_valid_from, ub_asy[ub_i])
    /\ ub_pc' = "key_error"
    /\ ub_result' = NoResult
    /\ UNCHANGED <<variable_bounds, ring_vars, o_vars, vf_vars, fac_vars,
                   ub_asy, ub_args, ub_i>>

\* lines 190-191: any other summand, ValueError
UBRaise ==
    /\ ub_pc = "loop"
    /\ ~loop_done(ub_i, ub_asy)
    /\ ub_asy[ub_i].kind \notin {"exact", "B"}
    /\ ub_pc' = "raised"
    /\ ub_result' = NoResult
    /\ UNCHANGED <<variable_bounds, ring_vars, o_vars, vf_vars, fac_vars,
                   ub_asy, ub_args, ub_i, ub_bound, ub_valid_from>>

\* lines 193-196
UBReturn ==
    /\ ub_pc = "loop"
    /\ loop_done(ub_i, ub_asy)
    /\ ub_pc' = "returned"
    /\ ub_result' = IF ub_args.numeric
                    THEN [kind |-> "number", value |-> subs(ub_bound, ub_valid_from)]
                    ELSE [kind |-> "expansion", value |-> ub_bound]
    /\ UNCHANGED <<variable_bounds, ring_vars, o_vars, vf_vars, fac_vars,
                   ub_asy, ub_args, ub_i, ub_bound, ub_valid_from>>

\* the caller is done with the outcome
UBForget ==
    /\ ub_pc \in {"returned", "raised", "key_error"}
    /\ ub_pc' = "idle"
    /\ ub_asy' = <<>>
    /\ ub_args' = None
    /\ ub_i' = 0
    /\ ub_bound' = {}
    /\ ub_valid_from' = <<>>
    /\ ub_result' = NoResult
    /\ UNCHANGED <<variable_bounds, ring_vars, o_vars, vf_vars, fac_vars>>

UBNext ==
    \/ UBCall
    \/ UBExact
    \/ UBBTerm
    \/ UBKeyError
    \/ UBRaise
    \/ UBReturn
    \/ UBForget

SpecUB == UBInit /\ [][UBNext]_vars

UBEnded == ub_pc \in {"returned", "raised", "key_error"}

Unboundable(asy) == \E i \in DOMAIN asy : asy[i].kind \notin {"exact", "B"}

\* C6: a call on an expansion with a summand that is neither exact nor a
\* B-term ends in ValueError and returns nothing, wherever the summand
\* stands and whatever numeric and valid_from are
C6_UnboundableRaises ==
    (UBEnded /\ Unboundable(ub_asy)) =>
        /\ ub_pc = "raised"
        /\ ub_result = [kind |-> "none"]

BIndices(asy) == {i \in DOMAIN asy : asy[i].kind = "B"}

\* a value the expansion can take at n = pn, m = pm, times pn^MaxExp: a
\* B-term c*g stands for theta*c*g with theta between -1 and 1
RECURSIVE ValueAt(_, _, _, _, _)
ValueAt(asy, i, theta, pn, pm) ==
    IF i > Len(asy) THEN 0
    ELSE (IF asy[i].kind = "B" THEN theta[i] ELSE 1)
            * asy[i].coefficient
            * Pow(pn, asy[i].growth.n + MaxExp) * Pow(pm, asy[i].growth.m)
         + ValueAt(asy, i + 1, theta, pn, pm)

\* the returned expansion is at least every value the expansion takes at
\* every point that is at least the accumulated floors
UpperBoundAt(pn, pm) ==
    (\A v \in DOMAIN ub_valid_from :
        (IF v = "n" THEN pn ELSE pm) >= ub_valid_from[v]) =>
        \A theta \in [BIndices(ub_asy) -> {-1, 0, 1}] :
            SumOver(ub_result.value, pn, pm, MaxExp)
                >= ValueAt(ub_asy, 1, theta, pn, pm)

\* C7: for an expansion of exact and B-terms the call returns an expansion
\* that, at every point at which every variable is at least its
\* accumulated floor, is at least every value the expansion can take
C7_UpperBoundSound ==
    (UBEnded /\ ~Unboundable(ub_asy) /\ ~ub_args.numeric) =>
        /\ ub_pc = "returned"
        /\ \A pn \in 1 .. MaxPoint, pm \in 1 .. MaxPoint : UpperBoundAt(pn, pm)

\* the seed the claim names: the valid_from argument when given, else 1
C11_Seed(valid_from) == IF valid_from.given THEN valid_from.value ELSE 1

\* the point the claim names for v: the largest of the seed and the floors
\* for v of the B-terms of the expansion
C11_Point(asy, valid_from) ==
    [v \in variable_names(asy) |->
        SetMax({C11_Seed(valid_from)}
                  \cup {asy[i].valid_from[v] : i \in BIndices(asy)})]

\* C11: with numeric set the returned number is the bound with every
\* variable replaced by the largest of the seed (the valid_from argument
\* when one is given, 1 otherwise) and the variable's floors in the B-terms
C11_NumericSubstitution ==
    (ub_pc = "returned" /\ ub_args.numeric) =>
        /\ ub_valid_from = C11_Point(ub_asy, ub_args.valid_from)
        /\ ub_result =
              [kind |-> "number",
               value |-> subs(ub_bound, C11_Point(ub_asy, ub_args.valid_from))]

(***************************************************************************)
(* The monoid factories.  The dependent variable passed is a symbolic      *)
(* expression, a bare symbol or not; a bound is None or the power n^(p/2). *)
(***************************************************************************)
Factories == {"Exact", "O", "B"}

Expression(text, is_symbol) == [text |-> text, is_symbol |-> is_symbol]

DependentVariables ==
    {Expression("k", TRUE), Expression("j", TRUE),
     Expression("k + 1", FALSE), Expression("2*k", FALSE)}

NoneBound == [is_none |-> TRUE, power |-> 0]

PowerBound(p) == [is_none |-> FALSE, power |-> p]

BoundArgs == {NoneBound} \cup {PowerBound(p) : p \in -MaxBnd .. MaxBnd}

\* a check that looks at the lower bound only
verify_lower_only(dependent_variable, lower_bound, upper_bound) ==
    IF ~dependent_variable.is_symbol
    THEN "ValueError: A suitable dependent variable must be passed."
    ELSE IF lower_bound.is_none
    THEN "ValueError: The lower und upper bounds for the dependent variable must be set."
    ELSE "ok"

\* _verify_variable_and_bounds(dependent_variable, lower_bound, upper_bound)
verify_variable_and_bounds(dependent_variable, lower_bound, upper_bound) ==
    IF ~dependent_variable.is_symbol
    THEN "ValueError: A suitable dependent variable must be passed."
    ELSE IF lower_bound.is_none \/ upper_bound.is_none
    THEN "ValueError: The lower und upper bounds for the dependent variable must be set."
    ELSE "ok"

\* the class statement of a factory: the class closes over the arguments
monoid_class(call) ==
    [monoid |-> call.factory,
     dependent_variable |-> call.dependent_variable,
     lower_bound |-> call.lower_bound,
     upper_bound |-> call.upper_bound]

\* __init__ of the monoid class
monoid_instance(class) ==
    [monoid |-> class.monoid,
     _dependent_variable |-> class.dependent_variable,
     _lower_bound |-> class.lower_bound,
     _upper_bound |-> class.upper_bound]

\* the property variable_bounds
variable_bounds_of(instance) ==
    <<instance._dependent_variable, instance._lower_bound, instance._upper_bound>>

FacInit ==
    /\ variable_bounds = NoBounds
    /\ RingIdle
    /\ OIdle
    /\ VFIdle
    /\ UBIdle
    /\ FacIdle

\* MonBound{Exact,O,B}TermMonoidFactory(dependent_variable, lower, upper)
FactoryCall ==
    /\ fac_pc = "idle"
    /\ \E f \in Factories, v \in DependentVariables, lo \in BoundArgs, up \in BoundArgs :
          fac_call' = [factory |-> f, dependent_variable |-> v,
                       lower_bound |-> lo, upper_bound |-> up]
    /\ fac_pc' = "verifying"
    /\ UNCHANGED <<variable_bounds, ring_vars, o_vars, vf_vars, ub_vars,
                   fac_error, fac_class, fac_instance, fac_read>>

\* the first statement of the factory raises
FactoryRaise ==
    /\ fac_pc = "verifying"
    /\ verify_variable_and_bounds(fac_call.dependent_variable,
                                   fac_call.lower_bound, fac_call.upper_bound) # "ok"
    /\ fac_error' = verify_variable_and_bounds(fac_call.dependent_variable,
                                                fac_call.lower_bound, fac_call.upper_bound)
    /\ fac_pc' = "raised"
    /\ UNCHANGED <<variable_bounds, ring_vars, o_vars, vf_vars, ub_vars,
                   fac_call, fac_class, fac_instance, fac_read>>

\* the check passed: the class is defined and returned
FactoryReturn ==
    /\ fac_pc = "verifying"
    /\ verify_variable_and_bounds(fac_call.dependent_variable,
                                   fac_call.lower_bound, fac_call.upper_bound) = "ok"
    /\ fac_class' = monoid_class(fac_call)
    /\ fac_pc' = "returned"
    /\ UNCHANGED <<variable_bounds, ring_vars, o_vars, vf_vars, ub_vars,
                   fac_call, fac_error, fac_instance, fac_read>>

\* the returned class is instantiated
Instantiate ==
    /\ fac_pc = "returned"
    /\ fac_instance' = monoid_instance(fac_class)
    /\ fac_pc' = "instantiated"
    /\ UNCHANGED <<variable_bounds, ring_vars, o_vars, vf_vars, ub_vars,
                   fac_call, fac_error, fac_class, fac_read>>

\* variable_bounds of the instance is read
ReadVariableBounds ==
    /\ fac_pc = "instantiated"
    /\ fac_read' = variable_bounds_of(fac_instance)
    /\ fac_pc' = "read"
    /\ UNCHANGED <<variable_bounds, ring_vars, o_vars, vf_vars, ub_vars,
                   fac_call, fac_error, fac_class, fac_instance>>

\* the caller drops what the call gave
FactoryForget ==
    /\ fac_pc \in {"raised", "read"}
    /\ fac_pc' = "idle"
    /\ fac_call' = NoCall
    /\ fac_error' = None
    /\ fac_class' = NoClass
    /\ fac_instance' = NoInstance
    /\ fac_read' = <<>>
    /\ UNCHANGED <<variable_bounds, ring_vars, o_vars, vf_vars, ub_vars>>

FacNext ==
    \/ FactoryCall
    \/ FactoryRaise
    \/ FactoryReturn
    \/ Instantiate
    \/ ReadVariableBounds
    \/ FactoryForget

SpecFactory == FacInit /\ [][FacNext]_vars

InvalidTriple(call) ==
    \/ ~call.dependent_variable.is_symbol
    \/ call.lower_bound.is_none
    \/ call.upper_bound.is_none

\* C8: a factory called with a dependent variable that is no bare symbol,
\* or with a bound that is None, raises ValueError before a class exists;
\* called with a valid triple it returns a class whose variable_bounds is
\* the triple as passed
C8_FactoryValidates ==
    fac_pc \in {"raised", "returned", "instantiated", "read"} =>
        /\ InvalidTriple(fac_call) =>
              /\ fac_pc = "raised"
              /\ fac_error \in
                    {"ValueError: A suitable dependent variable must be passed.",
                     "ValueError: The lower und upper bounds for the dependent variable must be set."}
              /\ fac_class = NoClass
              /\ fac_instance = NoInstance
        /\ ~InvalidTriple(fac_call) =>
              /\ fac_pc # "raised"
              /\ fac_class.monoid = fac_call.factory
              /\ fac_pc = "read" =>
                    fac_read = <<fac_call.dependent_variable,
                                 fac_call.lower_bound, fac_call.upper_bound>>

\* the O factory raised for a bare symbol with an upper bound of None
C8_Witness ==
    /\ fac_pc = "raised"
    /\ fac_call.factory = "O"
    /\ fac_call.dependent_variable.is_symbol
    /\ ~fac_call.lower_bound.is_none
    /\ fac_call.upper_bound.is_none

====
